---------------------------- MODULE Spec2Model ----------------------------
(***************************************************************************)
(* Model of the wake-word listening state machine of the Jackson desktop   *)
(* assistant (src-tauri/src/wake_word.rs): the two listening flags, the    *)
(* recognizer mutex, the host calls start_listening / stop_listening, the  *)
(* background recognition threads, the follow-up timer threads and the     *)
(* utterance callback handed to the continuous-speech collaborator.        *)
(***************************************************************************)
EXTENDS Integers, Sequences, FiniteSets, TLC

(***************************************************************************)
(* Bounds of the model.                                                    *)
(***************************************************************************)
\* start_listening calls made over a run (call k passes callback k)
MaxStarts == 2
\* host calls that may be in progress at the same time
NumCallers == 2
\* wake-phrase matches the recognition engine reports over a run
MaxMatches == 2
\* seconds by which the clock advances at most in one step
TickStep == 10
\* start_capture / start_capture_with_sample_rate calls made over a run
MaxCaptures == 3
\* samples in a buffer the audio thread delivers
MaxFrame == 1

(***************************************************************************)
(* Program constants.                                                      *)
(***************************************************************************)
\* thread::sleep(Duration::from_secs(30)) of the follow-up timer
FollowUpTimeoutSecs == 30
\* callback(0): index 0 for "Hey Jackson"
WakeWordIndex == 0

(***************************************************************************)
(* Text: a string is a sequence of one-character strings.                  *)
(***************************************************************************)
UpperCase ==
    << "A", "B", "C", "D", "E", "F", "G", "H", "I", "J", "K", "L", "M",
       "N", "O", "P", "Q", "R", "S", "T", "U", "V", "W", "X", "Y", "Z" >>

LowerCase ==
    << "a", "b", "c", "d", "e", "f", "g", "h", "i", "j", "k", "l", "m",
       "n", "o", "p", "q", "r", "s", "t", "u", "v", "w", "x", "y", "z" >>

\* char::to_lowercase on the characters the model uses
to_lowercase_char(c) ==
    IF \E i \in 1..Len(UpperCase) : UpperCase[i] = c
    THEN LowerCase[CHOOSE i \in 1..Len(UpperCase) : UpperCase[i] = c]
    ELSE c

\* str::to_lowercase
to_lowercase(s) ==
    [i \in 1..Len(s) |-> to_lowercase_char(s[i])]

\* does pat occur in s at position i (a left-to-right comparison)
RECURSIVE MatchesAt(_, _, _, _)
MatchesAt(s, pat, i, k) ==
    IF k > Len(pat) THEN TRUE
    ELSE IF i + k - 1 > Len(s) THEN FALSE
    ELSE IF s[i + k - 1] # pat[k] THEN FALSE
    ELSE MatchesAt(s, pat, i, k + 1)

\* str::contains: scan the start positions from the left
RECURSIVE ScanFrom(_, _, _)
ScanFrom(s, pat, i) ==
    IF i + Len(pat) - 1 > Len(s) THEN FALSE
    ELSE IF MatchesAt(s, pat, i, 1) THEN TRUE
    ELSE ScanFrom(s, pat, i + 1)

contains(s, pat) ==
    ScanFrom(s, pat, 1)

\* the literal "hey jackson" of the match check
WakePhrase ==
    << "h", "e", "y", " ", "j", "a", "c", "k", "s", "o", "n" >>

\* a match check that forgets to lower-case the text
IsWakeWord_CaseSensitive(text) ==
    contains(text, WakePhrase)

\* text.to_lowercase().contains("hey jackson")
IsWakeWord(text) ==
    contains(to_lowercase(text), WakePhrase)

StopListeningPhrase ==
    << "s", "t", "o", "p", " ", "l", "i", "s", "t", "e", "n", "i", "n", "g" >>

GoodbyePhrase ==
    << "g", "o", "o", "d", "b", "y", "e" >>

ByePhrase ==
    << "b", "y", "e" >>

\* the stop-command check of the utterance callback
IsStopCommand(text) ==
    \/ contains(to_lowercase(text), StopListeningPhrase)
    \/ contains(to_lowercase(text), GoodbyePhrase)
    \/ contains(to_lowercase(text), ByePhrase)

(***************************************************************************)
(* Inputs: what the recognition engine and the collaborator may report.    *)
(***************************************************************************)
PleaseSayHeyJacksonNow ==
    << "p", "l", "e", "a", "s", "e", " ", "s", "a", "y", " ",
       "H", "E", "Y", " ", "J", "A", "C", "K", "S", "O", "N", " ",
       "n", "o", "w" >>

HeyJason ==
    << "h", "e", "y", " ", "j", "a", "s", "o", "n" >>

HeyJacksonTitle ==
    << "H", "e", "y", " ", "J", "a", "c", "k", "s", "o", "n" >>

HeyJackso ==
    << "h", "e", "y", " ", "j", "a", "c", "k", "s", "o" >>

HeyHeyJackson ==
    << "h", "e", "y", " ", "h", "e", "y", " ", "j", "a", "c", "k", "s", "o", "n" >>

\* phrase.text of an Ok(Some(phrase)) result
PhraseTexts ==
    { PleaseSayHeyJacksonNow, HeyJason, HeyJacksonTitle, HeyJackso, HeyHeyJackson }

NoText == << >>

GoodbyeTitle ==
    << "G", "o", "o", "d", "b", "y", "e" >>

PleaseStopListening ==
    << "p", "l", "e", "a", "s", "e", " ",
       "S", "T", "O", "P", " ", "L", "i", "s", "t", "e", "n", "i", "n", "g" >>

ByTheWay ==
    << "b", "y", " ", "t", "h", "e", " ", "w", "a", "y" >>

OkBye ==
    << "o", "k", " ", "B", "y", "e" >>

WhatTime ==
    << "w", "h", "a", "t", " ", "t", "i", "m", "e" >>

\* text passed to the utterance callback
UtteranceTexts ==
    { GoodbyeTitle, PleaseStopListening, ByTheWay, OkBye, WhatTime }

\* a loop that calls the callback for every recognized phrase
WakeTexts_All ==
    PhraseTexts

\* the phrase texts for which the match check succeeds
WakeTexts ==
    { x \in PhraseTexts : IsWakeWord(x) }

\* the utterance texts for which the stop-command check succeeds
StopTexts ==
    { u \in UtteranceTexts : IsStopCommand(u) }

(***************************************************************************)
(* State.                                                                  *)
(***************************************************************************)
VARIABLES
    is_listening_for_wake_word, \* the wake-word flag (wakeWordActive)
    is_listening_for_speech,    \* the follow-up flag (followUpActive)
    recognizer,                 \* the engine handle: "Some" or "None"
    recognizer_guard,           \* thread holding the recognizer mutex, 0 if free
    pc,                         \* per start_listening call: where it or its thread is
    nextCall,                   \* number of the next start_listening call
    stopsAtSpeech,              \* stop_listening calls that cleared the wake-word flag
    stopsAtTeardown,            \* stop_listening calls that cleared both flags
    speechSession,              \* the collaborator holds an utterance callback
    timers,                     \* remaining seconds of the sleeping timer threads
    windowAge,                  \* seconds since the follow-up flag was last set
    invoked,                    \* per callback: number of invocations
    cbArgs,                     \* arguments the callbacks were invoked with
    stopSeen,                   \* polling threads that have a stop_listening to observe
    missed,                     \* the latest recognition attempt gave Ok(None) or Err
    \* main.rs: the host application
    wake_word_detector,         \* AppState.wake_word_detector: "Unset", "Some", "None", "Dropped"
    sapi_initialized,           \* sapi_lite::initialize() has succeeded
    finalized,                  \* number of sapi_lite::finalize() calls
    lastCommand,                \* the latest host command: "none", "start", "stop"
    commandResult,              \* its result: "none", "ok", "not_initialized"
    app_handle,                 \* the event sink handed to the detector: "Some" or "None"
    lastEmit,                   \* the follow-up window at the latest "continuous-speech"
                                \* event: "none" (no event yet), "open", "closed"
    \* audio.rs: one AudioCapture instance
    is_capturing,               \* the capturing flag
    shutdown_sender,            \* "Some" or "None"
    stream,                     \* _stream: number of the stream held, 0 for None
    openStreams,                \* streams built and not yet dropped
    sink,                       \* the callback installed in the held stream: call number and flavor
    capturePc,                  \* "idle", or "stopping" inside stop_capture
    captureCalls,               \* start calls made so far
    captureResult,              \* result of the latest start call: "none", "ok", "err"
    buffer,                     \* the buffer the audio thread is handling
    late,                       \* sink invocations since the latest stop_capture returned
    \* the mutexes of AppState and WakeWordDetector, lock by lock
    holder,                     \* per mutex: the thread that holds it, or Free
    at                          \* per thread: the statement it is at

detectorVars ==
    << is_listening_for_wake_word, is_listening_for_speech, recognizer,
       recognizer_guard, pc, nextCall, stopsAtSpeech, stopsAtTeardown,
       speechSession, timers, windowAge, invoked, cbArgs, stopSeen, missed >>

hostVars ==
    << wake_word_detector, sapi_initialized, finalized, lastCommand, commandResult,
       app_handle, lastEmit >>

audioVars ==
    << is_capturing, shutdown_sender, stream, openStreams, sink, capturePc,
       captureCalls, captureResult, buffer, late >>

lockVars ==
    << holder, at >>

vars ==
    << detectorVars, hostVars, audioVars, lockVars >>

Calls == 1..MaxStarts

\* positions of a background thread inside the recognition polling loop
LoopPcs ==
    { "check", "recognize", "in_callback", "followup", "fu_register" }

\* positions of a spawned thread that has not returned
AlivePcs ==
    { "wait_recognizer", "setup" } \cup LoopPcs

Polling == { t \in Calls : pc[t] \in LoopPcs }

\* host calls in progress
InFlight ==
    Cardinality({ t \in Calls : pc[t] = "spawn" }) + stopsAtSpeech + stopsAtTeardown

\* callback invocations so far
Invocations ==
    LET RECURSIVE Sum(_)
        Sum(k) == IF k = 0 THEN 0 ELSE invoked[k] + Sum(k - 1)
    IN  Sum(MaxStarts)

SetupResults == { "ok", "context_err", "grammar_err", "enable_err" }

RecognizeResults ==
    { [kind |-> "none", text |-> NoText], [kind |-> "error", text |-> NoText] }
        \cup { [kind |-> "phrase", text |-> x] : x \in PhraseTexts }

Min(a, b) == IF a < b THEN a ELSE b

\* the mutexes: AppState.wake_word_detector ("host") and the fields of the detector
Mutexes ==
    { "host", "is_listening_for_wake_word", "is_listening_for_speech", "recognizer",
      "speech_recognizer", "app_handle", "audio_capture" }

\* threads that wait for them: command handlers, spawned loop threads, and the
\* collaborator's thread running the utterance closure (a timer thread takes
\* one mutex, once)
Commands == { << "command", c >> : c \in 1..NumCallers }

Loops == { << "loop", t >> : t \in Calls }

Collaborator == << "collaborator", 1 >>

Agents == Commands \cup Loops \cup { Collaborator }

Free == << "nobody", 0 >>

(***************************************************************************)
(* Initial states.                                                         *)
(***************************************************************************)
\* no mutex is held, no command is running, no thread has been spawned
FreshLocks ==
    /\ holder = [m \in Mutexes |-> Free]
    /\ at = [a \in Agents |-> "idle"]

\* WakeWordDetector::new: both flags false, no thread, no follow-up session
FreshDetector ==
    /\ is_listening_for_wake_word = FALSE
    /\ is_listening_for_speech = FALSE
    /\ recognizer_guard = 0
    /\ pc = [t \in Calls |-> "none"]
    /\ nextCall = 1
    /\ stopsAtSpeech = 0
    /\ stopsAtTeardown = 0
    /\ speechSession = FALSE
    /\ timers = {}
    /\ windowAge = 0
    /\ invoked = [t \in Calls |-> 0]
    /\ cbArgs = {}
    /\ stopSeen = {}
    /\ missed = FALSE

NoBuffer == [stage |-> "none", stream |-> 0, len |-> 0, flag |-> FALSE]

NoSink == [call |-> 0, flavor |-> "none"]

\* AudioCapture::new
FreshAudioCapture ==
    /\ is_capturing = FALSE
    /\ shutdown_sender = "None"
    /\ stream = 0
    /\ openStreams = {}
    /\ sink = NoSink
    /\ capturePc = "idle"
    /\ captureCalls = 0
    /\ captureResult = "none"
    /\ buffer = NoBuffer
    /\ late = 0

\* a detector as WakeWordDetector::new returns it, and a new AudioCapture
Init ==
    /\ FreshDetector
    /\ recognizer = "Some"
    /\ wake_word_detector = "Some"
    /\ sapi_initialized = TRUE
    /\ finalized = 0
    /\ lastCommand = "none"
    /\ commandResult = "none"
    /\ app_handle = "None"
    /\ lastEmit = "none"
    /\ FreshAudioCapture
    /\ FreshLocks

\* the process before main's setup closure has run
InitHost ==
    /\ FreshDetector
    /\ recognizer = "None"
    /\ wake_word_detector = "Unset"
    /\ sapi_initialized = FALSE
    /\ finalized = 0
    /\ lastCommand = "none"
    /\ commandResult = "none"
    /\ app_handle = "None"
    /\ lastEmit = "none"
    /\ FreshAudioCapture
    /\ FreshLocks

(***************************************************************************)
(* start_listening, the calling thread.                                    *)
(***************************************************************************)
\* a start_listening that never takes the early return
AlreadyListening_Never ==
    FALSE

\* if *is_listening_guard { return; }
AlreadyListening ==
    is_listening_for_wake_word

\* lock the flag; return if it is set, else set it and go on to spawn
StartListening ==
    /\ nextCall <= MaxStarts
    /\ InFlight < NumCallers
    /\ nextCall' = nextCall + 1
    /\ IF AlreadyListening
       THEN /\ pc' = [pc EXCEPT ![nextCall] = "rejected"]
            /\ UNCHANGED is_listening_for_wake_word
       ELSE /\ pc' = [pc EXCEPT ![nextCall] = "spawn"]
            /\ is_listening_for_wake_word' = TRUE
    /\ UNCHANGED << is_listening_for_speech, recognizer, recognizer_guard,
                    stopsAtSpeech, stopsAtTeardown, speechSession, timers,
                    windowAge, invoked, cbArgs, stopSeen >>
    /\ UNCHANGED missed

\* thread::spawn(move || ...) and return
StartSpawn(t) ==
    /\ pc[t] = "spawn"
    /\ pc' = [pc EXCEPT ![t] = "wait_recognizer"]
    /\ UNCHANGED << is_listening_for_wake_word, is_listening_for_speech, recognizer,
                    recognizer_guard, nextCall, stopsAtSpeech, stopsAtTeardown,
                    speechSession, timers, windowAge, invoked, cbArgs, stopSeen >>
    /\ UNCHANGED missed

(***************************************************************************)
(* The background thread: setup.                                           *)
(***************************************************************************)
\* a thread that drops the guard once the grammar is enabled
GuardAfterSetup_Dropped(t) ==
    0

\* recognizer_guard is a local of the closure: it is held until the thread returns
GuardAfterSetup(t) ==
    t

\* a lock that excludes nobody
RecognizerFree_Always ==
    TRUE

\* recognizer.lock() returns only when no other thread holds the mutex
RecognizerFree ==
    recognizer_guard = 0

\* the mutex as the thread leaves it when it returns
GuardReleased(t) ==
    IF recognizer_guard = t THEN 0 ELSE recognizer_guard

\* a failure path that returns without clearing the flag
FlagAfterSetupFailure_Kept ==
    is_listening_for_wake_word

\* the flag after a setup failure: *guard = false
FlagAfterSetupFailure ==
    FALSE

\* let recognizer_guard = recognizer.lock().unwrap(); match recognizer_guard.as_ref()
AcquireRecognizer(t) ==
    /\ pc[t] = "wait_recognizer"
    /\ RecognizerFree
    /\ IF recognizer = "Some"
       THEN /\ recognizer_guard' = t
            /\ pc' = [pc EXCEPT ![t] = "setup"]
            /\ UNCHANGED is_listening_for_wake_word
       ELSE /\ recognizer_guard' = 0
            /\ pc' = [pc EXCEPT ![t] = "failed"]
            /\ is_listening_for_wake_word' = FlagAfterSetupFailure
    /\ UNCHANGED << is_listening_for_speech, recognizer, nextCall, stopsAtSpeech,
                    stopsAtTeardown, speechSession, timers, windowAge, invoked,
                    cbArgs, stopSeen >>
    /\ UNCHANGED missed

\* SyncContext::new, grammar_builder().build(), grammar.set_enabled(true)
Setup(t, r) ==
    /\ pc[t] = "setup"
    /\ IF r = "ok"
       THEN /\ pc' = [pc EXCEPT ![t] = "check"]
            /\ recognizer_guard' = GuardAfterSetup(t)
            /\ UNCHANGED is_listening_for_wake_word
       ELSE /\ pc' = [pc EXCEPT ![t] = "failed"]
            /\ recognizer_guard' = GuardReleased(t)
            /\ is_listening_for_wake_word' = FlagAfterSetupFailure
    /\ UNCHANGED << is_listening_for_speech, recognizer, nextCall, stopsAtSpeech,
                    stopsAtTeardown, speechSession, timers, windowAge, invoked,
                    cbArgs, stopSeen >>
    /\ UNCHANGED missed

(***************************************************************************)
(* The background thread: the recognition polling loop.                    *)
(***************************************************************************)
\* a loop that goes round without reading the flag
WakeFlagAtCheck_Ignored ==
    TRUE

\* { let guard = is_listening_for_wake_word.lock().unwrap(); *guard }
WakeFlagAtCheck ==
    is_listening_for_wake_word

\* while { let guard = is_listening_for_wake_word.lock().unwrap(); *guard } { ... }
LoopCheck(t) ==
    /\ pc[t] = "check"
    /\ IF WakeFlagAtCheck
       THEN /\ pc' = [pc EXCEPT ![t] = "recognize"]
            /\ UNCHANGED recognizer_guard
       ELSE /\ pc' = [pc EXCEPT ![t] = "done"]
            /\ recognizer_guard' = GuardReleased(t)
    /\ stopSeen' = stopSeen \ {t}
    /\ UNCHANGED << is_listening_for_wake_word, is_listening_for_speech, recognizer,
                    nextCall, stopsAtSpeech, stopsAtTeardown, speechSession, timers,
                    windowAge, invoked, cbArgs >>
    /\ missed' = FALSE

\* the argument of the callback call: callback(0)
CallbackArg ==
    WakeWordIndex

\* a loop that ends at the first attempt that recognizes nothing
PcAfterMiss_Exit ==
    "done"

\* Ok(None) => {} and Err(e) => { eprintln!(...) }: the while loop goes round
PcAfterMiss ==
    "check"

\* a match that opens the follow-up window before it calls the callback
SpeechFlagAtCallback_Set ==
    TRUE

\* callback(0) comes before the is_listening_for_speech lock: the flag is as it was
SpeechFlagAtCallback ==
    is_listening_for_speech

\* match ctx.recognize(Duration::from_millis(500)) { Ok(Some(phrase)) => { if
\* text.to_lowercase().contains("hey jackson") { callback(0); ... } }
\* Ok(None) => {} Err(e) => {} }
Recognize(t, r) ==
    /\ pc[t] = "recognize"
    /\ IF r.kind = "phrase" /\ r.text \in WakeTexts
       THEN /\ Invocations < MaxMatches
            /\ pc' = [pc EXCEPT ![t] = "in_callback"]
            /\ invoked' = [invoked EXCEPT ![t] = @ + 1]
            /\ cbArgs' = cbArgs \cup {CallbackArg}
            /\ is_listening_for_speech' = SpeechFlagAtCallback
       ELSE /\ pc' = [pc EXCEPT ![t] = PcAfterMiss]
            /\ UNCHANGED << invoked, cbArgs, is_listening_for_speech >>
    /\ UNCHANGED << is_listening_for_wake_word, recognizer,
                    recognizer_guard, nextCall, stopsAtSpeech, stopsAtTeardown,
                    speechSession, timers, windowAge, stopSeen >>
    /\ missed' = (r.kind \in { "none", "error" })

\* the callback returns to the loop
CallbackReturn(t) ==
    /\ pc[t] = "in_callback"
    /\ pc' = [pc EXCEPT ![t] = "followup"]
    /\ UNCHANGED << is_listening_for_wake_word, is_listening_for_speech, recognizer,
                    recognizer_guard, nextCall, stopsAtSpeech, stopsAtTeardown,
                    speechSession, timers, windowAge, invoked, cbArgs, stopSeen >>
    /\ UNCHANGED missed

\* an activation that does not look at the flag
SpeechAlreadyActive_Never ==
    FALSE

\* if !*speech_guard { ... }: the flag as read under its lock
SpeechAlreadyActive ==
    is_listening_for_speech

\* let mut speech_guard = ...lock(); if !*speech_guard { *speech_guard = true; ... }
FollowUpCheck(t) ==
    /\ pc[t] = "followup"
    /\ IF SpeechAlreadyActive
       THEN /\ pc' = [pc EXCEPT ![t] = "check"]
            /\ UNCHANGED << is_listening_for_speech, windowAge >>
       ELSE /\ pc' = [pc EXCEPT ![t] = "fu_register"]
            /\ is_listening_for_speech' = TRUE
            /\ windowAge' = 0
    /\ UNCHANGED << is_listening_for_wake_word, recognizer, recognizer_guard,
                    nextCall, stopsAtSpeech, stopsAtTeardown, speechSession, timers,
                    invoked, cbArgs, stopSeen >>
    /\ UNCHANGED missed

\* outcomes of the collaborator's start_listening
StartResults == { "ok", "err" }

\* a follow-up activation that starts no timer
TimersAfterSpawn_None ==
    timers

\* the timer threads after thread::spawn of one that sleeps 30 seconds
TimersAfterSpawn ==
    timers \cup {FollowUpTimeoutSecs}

\* speech_recognizer.start_listening(closure), the Err arm, and the timer spawn
FollowUpRegister(t, r) ==
    /\ pc[t] = "fu_register"
    /\ pc' = [pc EXCEPT ![t] = "check"]
    /\ IF r = "ok"
       THEN /\ speechSession' = TRUE
            /\ UNCHANGED << is_listening_for_speech, windowAge >>
       ELSE /\ is_listening_for_speech' = FALSE
            /\ windowAge' = 0
            /\ UNCHANGED speechSession
    /\ timers' = TimersAfterSpawn
    /\ UNCHANGED << is_listening_for_wake_word, recognizer, recognizer_guard,
                    nextCall, stopsAtSpeech, stopsAtTeardown, invoked, cbArgs,
                    stopSeen >>
    /\ UNCHANGED missed

(***************************************************************************)
(* The follow-up timer thread and the clock.                               *)
(***************************************************************************)
\* after the sleep: if *guard { *guard = false; }
TimerExpire ==
    /\ 0 \in timers
    /\ timers' = timers \ {0}
    /\ is_listening_for_speech' = FALSE
    /\ windowAge' = 0
    /\ UNCHANGED << is_listening_for_wake_word, recognizer, recognizer_guard, pc,
                    nextCall, stopsAtSpeech, stopsAtTeardown, speechSession,
                    invoked, cbArgs, stopSeen >>
    /\ UNCHANGED missed

MinOf(S) == CHOOSE x \in S : \A y \in S : x <= y

\* seconds the clock may advance: up to the next timer's wake-up
TickAmount ==
    IF timers = {} THEN TickStep ELSE Min(TickStep, MinOf(timers))

\* thread::sleep: time passes for every sleeping timer thread. A timer whose
\* sleep is over runs before more time passes, and no time passes between
\* setting the follow-up flag and spawning its timer (no blocking call there).
Tick ==
    /\ timers # {} \/ is_listening_for_speech
    /\ 0 \notin timers
    /\ \A t \in Calls : pc[t] # "fu_register"
    /\ timers' = { r - TickAmount : r \in timers }
    /\ windowAge' = IF is_listening_for_speech
                    THEN Min(windowAge + TickAmount, FollowUpTimeoutSecs + 1)
                    ELSE 0
    /\ UNCHANGED << is_listening_for_wake_word, is_listening_for_speech, recognizer,
                    recognizer_guard, pc, nextCall, stopsAtSpeech, stopsAtTeardown,
                    speechSession, invoked, cbArgs, stopSeen >>
    /\ UNCHANGED missed

(***************************************************************************)
(* stop_listening, the calling thread.                                     *)
(***************************************************************************)
\* let mut guard = self.is_listening_for_wake_word.lock().unwrap(); *guard = false;
StopClearWake ==
    /\ InFlight < NumCallers
    /\ is_listening_for_wake_word' = FALSE
    /\ stopsAtSpeech' = stopsAtSpeech + 1
    /\ stopSeen' = stopSeen \cup Polling
    /\ UNCHANGED << is_listening_for_speech, recognizer, recognizer_guard, pc,
                    nextCall, stopsAtTeardown, speechSession, timers, windowAge,
                    invoked, cbArgs >>
    /\ UNCHANGED missed

\* let mut speech_guard = self.is_listening_for_speech.lock().unwrap(); *speech_guard = false;
StopClearSpeech ==
    /\ stopsAtSpeech > 0
    /\ stopsAtSpeech' = stopsAtSpeech - 1
    /\ stopsAtTeardown' = stopsAtTeardown + 1
    /\ is_listening_for_speech' = FALSE
    /\ windowAge' = 0
    /\ UNCHANGED << is_listening_for_wake_word, recognizer, recognizer_guard, pc,
                    nextCall, speechSession, timers, invoked, cbArgs, stopSeen >>
    /\ UNCHANGED missed

\* a stop_listening that takes the engine handle out of its mutex
RecognizerAfterStop_Taken ==
    "None"

\* the engine handle as stop_listening leaves it (it does not touch it)
RecognizerAfterStop ==
    recognizer

\* audio_capture is cleared (it is never set), speech_recognizer.stop_listening()
StopTeardown ==
    /\ stopsAtTeardown > 0
    /\ stopsAtTeardown' = stopsAtTeardown - 1
    /\ speechSession' = FALSE
    /\ recognizer' = RecognizerAfterStop
    /\ UNCHANGED << is_listening_for_wake_word, is_listening_for_speech,
                    recognizer_guard, pc, nextCall, stopsAtSpeech, timers,
                    windowAge, invoked, cbArgs, stopSeen >>
    /\ UNCHANGED missed

(***************************************************************************)
(* The utterance callback, run by the continuous-speech collaborator.      *)
(***************************************************************************)
\* the closure: emit "continuous-speech", then if the text holds a stop phrase
\* { *guard = false; }
Utterance(u) ==
    /\ speechSession
    /\ IF u \in StopTexts
       THEN /\ is_listening_for_speech' = FALSE
            /\ windowAge' = 0
       ELSE UNCHANGED << is_listening_for_speech, windowAge >>
    /\ UNCHANGED << is_listening_for_wake_word, recognizer, recognizer_guard, pc,
                    nextCall, stopsAtSpeech, stopsAtTeardown, speechSession, timers,
                    invoked, cbArgs, stopSeen >>
    /\ UNCHANGED missed

(***************************************************************************)
(* main.rs: construction at startup, the two commands, destruction.        *)
(***************************************************************************)
\* outcomes of WakeWordDetector::new
NewResults == { "ok", "sapi_err", "recognizer_err", "speech_recognizer_err" }

\* main's setup closure: match WakeWordDetector::new() { Ok(d) => Some(d), Err(e) => None }
AppSetup(r) ==
    /\ wake_word_detector = "Unset"
    /\ wake_word_detector' = IF r = "ok" THEN "Some" ELSE "None"
    /\ sapi_initialized' = (r # "sapi_err")
    /\ recognizer' = IF r = "ok" THEN "Some" ELSE "None"
    /\ UNCHANGED << is_listening_for_wake_word, is_listening_for_speech,
                    recognizer_guard, pc, nextCall, stopsAtSpeech, stopsAtTeardown,
                    speechSession, timers, windowAge, invoked, cbArgs, stopSeen,
                    missed >>
    /\ UNCHANGED << finalized, lastCommand, commandResult, app_handle, lastEmit >>
    /\ UNCHANGED << audioVars, lockVars >>

\* a command that takes a missing detector for a present one
DetectorPresent_Always ==
    TRUE

\* detector_guard.as_ref() is Some
DetectorPresent ==
    wake_word_detector = "Some"

\* state.wake_word_detector.lock(): the guard is held until the command returns
HostMutexFree ==
    InFlight = 0

\* start_wake_word_detection
StartCommand ==
    /\ wake_word_detector \in { "Some", "None" }
    /\ HostMutexFree
    /\ lastCommand' = "start"
    /\ IF DetectorPresent
       THEN /\ app_handle' = "Some"
            /\ StartListening
            /\ commandResult' = "ok"
       ELSE /\ commandResult' = "not_initialized"
            /\ UNCHANGED << detectorVars, app_handle >>
    /\ UNCHANGED << wake_word_detector, sapi_initialized, finalized, lastEmit >>
    /\ UNCHANGED << audioVars, lockVars >>

\* stop_wake_word_detection
StopCommand ==
    /\ wake_word_detector \in { "Some", "None" }
    /\ HostMutexFree
    /\ lastCommand' = "stop"
    /\ IF DetectorPresent
       THEN /\ StopClearWake
            /\ commandResult' = "ok"
       ELSE /\ commandResult' = "not_initialized"
            /\ UNCHANGED detectorVars
    /\ UNCHANGED << wake_word_detector, sapi_initialized, finalized, app_handle,
                    lastEmit >>
    /\ UNCHANGED << audioVars, lockVars >>

\* a teardown that finalizes the engine a second time
FinalizedAfterDrop_Twice ==
    finalized + 2

\* Drop for WakeWordDetector: sapi_lite::finalize()
FinalizedAfterDrop ==
    finalized + 1

\* the detector is dropped; threads still running keep their Arc clones
DropDetector ==
    /\ wake_word_detector = "Some"
    /\ HostMutexFree
    /\ wake_word_detector' = "Dropped"
    /\ finalized' = FinalizedAfterDrop
    /\ UNCHANGED << sapi_initialized, lastCommand, commandResult, app_handle,
                    lastEmit >>
    /\ UNCHANGED detectorVars
    /\ UNCHANGED << audioVars, lockVars >>

\* if let Some(app) = app_handle_clone.lock().unwrap().as_ref() { app.emit(...) }
EmitAllowed ==
    app_handle = "Some"

\* the utterance closure in the application: the event goes to the frontend
\* and the stop-phrase check follows
UtteranceEvent(u) ==
    /\ Utterance(u)
    /\ lastEmit' = IF EmitAllowed
                   THEN IF is_listening_for_speech THEN "open" ELSE "closed"
                   ELSE lastEmit
    /\ UNCHANGED << wake_word_detector, sapi_initialized, finalized, lastCommand,
                    commandResult, app_handle >>
    /\ UNCHANGED << audioVars, lockVars >>

(***************************************************************************)
(* The same code lock by lock. A lock() waits until no thread holds the     *)
(* mutex. A guard that is dropped again before the thread locks or calls    *)
(* anything that can block makes one step of lock, statements and drop; the *)
(* guards held across further lock() calls (detector_guard of a command,    *)
(* recognizer_guard of a loop thread, the speech_recognizer guard around    *)
(* the follow-up activation) are taken in a step of their own. A statement  *)
(* is named after the call it belongs to and the mutex it is about to lock. *)
(***************************************************************************)
\* the mutex a thread at statement p is about to lock
Wanted(p) ==
    CASE p \in { "start.host", "stop.host" } -> "host"
      [] p \in { "start.app_handle", "closure.app_handle" } -> "app_handle"
      [] p \in { "start.is_listening_for_wake_word", "stop.is_listening_for_wake_word",
                 "fail.is_listening_for_wake_word", "loop.is_listening_for_wake_word" }
            -> "is_listening_for_wake_word"
      [] p \in { "stop.is_listening_for_speech", "loop.is_listening_for_speech",
                 "err.is_listening_for_speech", "timer.is_listening_for_speech",
                 "closure.is_listening_for_speech" }
            -> "is_listening_for_speech"
      [] p = "stop.audio_capture" -> "audio_capture"
      [] p \in { "stop.speech_recognizer", "loop.speech_recognizer" } -> "speech_recognizer"
      [] p = "loop.recognizer" -> "recognizer"
      [] OTHER -> "none"

\* what the steps of this section leave alone
LockFrame ==
    UNCHANGED << recognizer, recognizer_guard, pc, stopsAtSpeech,
                 stopsAtTeardown, windowAge, invoked, cbArgs, stopSeen, missed,
                 wake_word_detector, sapi_initialized, finalized, lastCommand,
                 commandResult, lastEmit, audioVars >>

\* the mutexes once thread a has returned: every guard it held is dropped
ReleasedAll(a) ==
    [m \in Mutexes |-> IF holder[m] = a THEN Free ELSE holder[m]]

\* thread a goes to statement p
Goes(a, p) ==
    at' = [at EXCEPT ![a] = p]

\* lock() of the mutex thread a is about to lock can return
CanLock(a) ==
    holder[Wanted(at[a])] = Free

\* thread a at statement p locks the mutex and keeps the guard
Locks(a, p) ==
    /\ at[a] = p
    /\ CanLock(a)
    /\ holder' = [holder EXCEPT ![Wanted(p)] = a]

\* thread a at statement p locks the mutex and drops the guard in the same step
LocksAndDrops(a, p) ==
    /\ at[a] = p
    /\ CanLock(a)
    /\ UNCHANGED holder

\* loop threads not running
Unspawned ==
    { l \in Loops : at[l] = "idle" }

\* the thread that a spawn starts
NewLoop ==
    CHOOSE l \in Unspawned : \A o \in Unspawned : l[2] <= o[2]

\* a start_wake_word_detection command arrives
BeginStart(c) ==
    /\ at[c] = "idle"
    /\ nextCall <= MaxStarts
    /\ nextCall' = nextCall + 1
    /\ UNCHANGED timers
    /\ Goes(c, "start.host")
    /\ UNCHANGED holder
    /\ UNCHANGED << is_listening_for_wake_word, is_listening_for_speech, speechSession,
                    app_handle >>
    /\ LockFrame

\* a stop_wake_word_detection command arrives
BeginStop(c) ==
    /\ at[c] = "idle"
    /\ Goes(c, "stop.host")
    /\ UNCHANGED holder
    /\ UNCHANGED << is_listening_for_wake_word, is_listening_for_speech, speechSession,
                    app_handle >>
    /\ UNCHANGED << nextCall, timers >>
    /\ LockFrame

\* let detector_guard = state.wake_word_detector.lock().unwrap();
LockHost(c) ==
    /\ \/ /\ Locks(c, "start.host")
          /\ Goes(c, IF wake_word_detector = "Some" THEN "start.app_handle" ELSE "return")
       \/ /\ Locks(c, "stop.host")
          /\ Goes(c, IF wake_word_detector = "Some"
                     THEN "stop.is_listening_for_wake_word"
                     ELSE "return")
    /\ UNCHANGED << is_listening_for_wake_word, is_listening_for_speech, speechSession,
                    app_handle >>
    /\ UNCHANGED << nextCall, timers >>
    /\ LockFrame

\* set_app_handle: *self.app_handle.lock().unwrap() = Some(app_handle);
SetAppHandle(c) ==
    /\ LocksAndDrops(c, "start.app_handle")
    /\ app_handle' = "Some"
    /\ Goes(c, "start.is_listening_for_wake_word")
    /\ UNCHANGED << is_listening_for_wake_word, is_listening_for_speech, speechSession >>
    /\ UNCHANGED << nextCall, timers >>
    /\ LockFrame

\* start_listening: if *guard { return; } *guard = true; drop(guard);
StartFlag(c) ==
    /\ LocksAndDrops(c, "start.is_listening_for_wake_word")
    /\ IF is_listening_for_wake_word
       THEN /\ Goes(c, "return")
            /\ UNCHANGED is_listening_for_wake_word
       ELSE /\ Goes(c, "start.spawn")
            /\ is_listening_for_wake_word' = TRUE
    /\ UNCHANGED << is_listening_for_speech, speechSession, app_handle >>
    /\ UNCHANGED << nextCall, timers >>
    /\ LockFrame

\* start_listening: thread::spawn(move || ...)
Spawn(c) ==
    /\ at[c] = "start.spawn"
    /\ at' = [at EXCEPT ![c] = "return", ![NewLoop] = "loop.recognizer"]
    /\ UNCHANGED holder
    /\ UNCHANGED << is_listening_for_wake_word, is_listening_for_speech, speechSession,
                    app_handle >>
    /\ UNCHANGED << nextCall, timers >>
    /\ LockFrame

\* the command returns and detector_guard is dropped
Return(c) ==
    /\ at[c] = "return"
    /\ holder' = ReleasedAll(c)
    /\ Goes(c, "idle")
    /\ UNCHANGED << is_listening_for_wake_word, is_listening_for_speech, speechSession,
                    app_handle >>
    /\ UNCHANGED << nextCall, timers >>
    /\ LockFrame

\* stop_listening: *guard = false; drop(guard);
StopFlag(c) ==
    /\ LocksAndDrops(c, "stop.is_listening_for_wake_word")
    /\ is_listening_for_wake_word' = FALSE
    /\ Goes(c, "stop.is_listening_for_speech")
    /\ UNCHANGED << is_listening_for_speech, speechSession, app_handle >>
    /\ UNCHANGED << nextCall, timers >>
    /\ LockFrame

\* a stop_listening that keeps speech_guard until it returns
SpeechGuardAfterStop_Kept(c) ==
    [holder EXCEPT !["is_listening_for_speech"] = c]

\* drop(speech_guard): the mutex is free again
SpeechGuardAfterStop(c) ==
    holder

\* stop_listening: *speech_guard = false; drop(speech_guard);
StopSpeechFlag(c) ==
    /\ at[c] = "stop.is_listening_for_speech"
    /\ CanLock(c)
    /\ is_listening_for_speech' = FALSE
    /\ holder' = SpeechGuardAfterStop(c)
    /\ Goes(c, "stop.audio_capture")
    /\ UNCHANGED << is_listening_for_wake_word, speechSession, app_handle >>
    /\ UNCHANGED << nextCall, timers >>
    /\ LockFrame

\* stop_listening: *capture_guard = None; (no capture is ever stored)
StopAudioCapture(c) ==
    /\ LocksAndDrops(c, "stop.audio_capture")
    /\ Goes(c, "stop.speech_recognizer")
    /\ UNCHANGED << is_listening_for_wake_word, is_listening_for_speech, speechSession,
                    app_handle >>
    /\ UNCHANGED << nextCall, timers >>
    /\ LockFrame

\* stop_listening: recognizer.stop_listening(); the guard goes at the end of the block
StopSpeechRecognizer(c) ==
    /\ LocksAndDrops(c, "stop.speech_recognizer")
    /\ speechSession' = FALSE
    /\ Goes(c, "return")
    /\ UNCHANGED << is_listening_for_wake_word, is_listening_for_speech, app_handle >>
    /\ UNCHANGED << nextCall, timers >>
    /\ LockFrame

\* let recognizer_guard = recognizer.lock().unwrap();
LockRecognizer(l) ==
    /\ Locks(l, "loop.recognizer")
    /\ Goes(l, "loop.setup")
    /\ UNCHANGED << is_listening_for_wake_word, is_listening_for_speech, speechSession,
                    app_handle >>
    /\ UNCHANGED << nextCall, timers >>
    /\ LockFrame

\* the thread, holding recognizer_guard: SyncContext::new, grammar build and enable
LoopSetup(l, r) ==
    /\ at[l] = "loop.setup"
    /\ Goes(l, IF r = "ok" THEN "loop.is_listening_for_wake_word"
               ELSE "fail.is_listening_for_wake_word")
    /\ UNCHANGED holder
    /\ UNCHANGED << is_listening_for_wake_word, is_listening_for_speech, speechSession,
                    app_handle >>
    /\ UNCHANGED << nextCall, timers >>
    /\ LockFrame

\* a failure arm: *guard = false; return;
LoopFail(l) ==
    /\ at[l] = "fail.is_listening_for_wake_word"
    /\ CanLock(l)
    /\ is_listening_for_wake_word' = FALSE
    /\ holder' = ReleasedAll(l)
    /\ Goes(l, "idle")
    /\ UNCHANGED << is_listening_for_speech, speechSession, app_handle >>
    /\ UNCHANGED << nextCall, timers >>
    /\ LockFrame

\* the loop condition; when the flag is false the thread returns and
\* recognizer_guard is dropped
LoopCondition(l) ==
    /\ at[l] = "loop.is_listening_for_wake_word"
    /\ CanLock(l)
    /\ IF is_listening_for_wake_word
       THEN /\ UNCHANGED holder
            /\ Goes(l, "loop.recognize")
       ELSE /\ holder' = ReleasedAll(l)
            /\ Goes(l, "idle")
    /\ UNCHANGED << is_listening_for_wake_word, is_listening_for_speech, speechSession,
                    app_handle >>
    /\ UNCHANGED << nextCall, timers >>
    /\ LockFrame

\* ctx.recognize returns: a phrase holding the wake phrase, or anything else
LoopRecognize(l, matched) ==
    /\ at[l] = "loop.recognize"
    /\ Goes(l, IF matched THEN "loop.callback" ELSE "loop.is_listening_for_wake_word")
    /\ UNCHANGED holder
    /\ UNCHANGED << is_listening_for_wake_word, is_listening_for_speech, speechSession,
                    app_handle >>
    /\ UNCHANGED << nextCall, timers >>
    /\ LockFrame

\* callback(0) returns
LoopCallback(l) ==
    /\ at[l] = "loop.callback"
    /\ Goes(l, "loop.is_listening_for_speech")
    /\ UNCHANGED holder
    /\ UNCHANGED << is_listening_for_wake_word, is_listening_for_speech, speechSession,
                    app_handle >>
    /\ UNCHANGED << nextCall, timers >>
    /\ LockFrame

\* if !*speech_guard { *speech_guard = true; drop(speech_guard); ... }
LoopSpeechFlag(l) ==
    /\ LocksAndDrops(l, "loop.is_listening_for_speech")
    /\ IF is_listening_for_speech
       THEN /\ Goes(l, "loop.is_listening_for_wake_word")
            /\ UNCHANGED is_listening_for_speech
       ELSE /\ Goes(l, "loop.speech_recognizer")
            /\ is_listening_for_speech' = TRUE
    /\ UNCHANGED << is_listening_for_wake_word, speechSession, app_handle >>
    /\ UNCHANGED << nextCall, timers >>
    /\ LockFrame

\* if let Some(speech_recognizer) = speech_recognizer.lock().unwrap().as_ref() {
\* speech_recognizer.start_listening(closure) ...: the guard lives to the end
\* of the if let
LoopRegister(l, r) ==
    /\ Locks(l, "loop.speech_recognizer")
    /\ IF r = "ok"
       THEN /\ speechSession' = TRUE
            /\ Goes(l, "loop.spawn_timer")
       ELSE /\ UNCHANGED speechSession
            /\ Goes(l, "err.is_listening_for_speech")
    /\ UNCHANGED << is_listening_for_wake_word, is_listening_for_speech, app_handle >>
    /\ UNCHANGED << nextCall, timers >>
    /\ LockFrame

\* the Err arm: *guard = false; the guard goes at the end of the arm
LoopRegisterFailed(l) ==
    /\ LocksAndDrops(l, "err.is_listening_for_speech")
    /\ is_listening_for_speech' = FALSE
    /\ Goes(l, "loop.spawn_timer")
    /\ UNCHANGED << is_listening_for_wake_word, speechSession, app_handle >>
    /\ UNCHANGED << nextCall, timers >>
    /\ LockFrame

\* thread::spawn of the timer; the speech_recognizer guard goes at the end of
\* the if let; back to the loop condition
LoopSpawnTimer(l) ==
    /\ at[l] = "loop.spawn_timer"
    /\ holder' = [holder EXCEPT !["speech_recognizer"] = Free]
    /\ timers' = TimersAfterSpawn
    /\ Goes(l, "loop.is_listening_for_wake_word")
    /\ UNCHANGED << is_listening_for_wake_word, is_listening_for_speech, speechSession,
                    app_handle >>
    /\ UNCHANGED nextCall
    /\ LockFrame

\* a timer thread's sleep is over: if *guard { *guard = false; } and the thread
\* ends; it was the last one sleeping, or others still sleep
TimerClears(last) ==
    /\ timers # {}
    /\ holder["is_listening_for_speech"] = Free
    /\ is_listening_for_speech' = FALSE
    /\ timers' = IF last THEN {} ELSE timers
    /\ UNCHANGED << holder, at, is_listening_for_wake_word, speechSession, app_handle >>
    /\ UNCHANGED nextCall
    /\ LockFrame

\* the collaborator calls the closure with an utterance
ClosureCalled ==
    /\ at[Collaborator] = "idle"
    /\ speechSession
    /\ Goes(Collaborator, "closure.app_handle")
    /\ UNCHANGED holder
    /\ UNCHANGED << is_listening_for_wake_word, is_listening_for_speech, speechSession,
                    app_handle >>
    /\ UNCHANGED << nextCall, timers >>
    /\ LockFrame

\* the closure: emit under the app_handle guard, then the stop-phrase check
ClosureEmits(stop) ==
    /\ LocksAndDrops(Collaborator, "closure.app_handle")
    /\ Goes(Collaborator, IF stop THEN "closure.is_listening_for_speech" ELSE "idle")
    /\ UNCHANGED << is_listening_for_wake_word, is_listening_for_speech, speechSession,
                    app_handle >>
    /\ UNCHANGED << nextCall, timers >>
    /\ LockFrame

\* the closure, on a stop phrase: *guard = false;
ClosureClears ==
    /\ LocksAndDrops(Collaborator, "closure.is_listening_for_speech")
    /\ is_listening_for_speech' = FALSE
    /\ Goes(Collaborator, "idle")
    /\ UNCHANGED << is_listening_for_wake_word, speechSession, app_handle >>
    /\ UNCHANGED << nextCall, timers >>
    /\ LockFrame

\* the steps of a command handler that has begun
CommandStep(c) ==
    \/ LockHost(c)
    \/ SetAppHandle(c)
    \/ StartFlag(c)
    \/ Spawn(c)
    \/ StopFlag(c)
    \/ StopSpeechFlag(c)
    \/ StopAudioCapture(c)
    \/ StopSpeechRecognizer(c)
    \/ Return(c)

\* the steps of a spawned loop thread
LoopStep(l) ==
    \/ LockRecognizer(l)
    \/ \E r \in SetupResults : LoopSetup(l, r)
    \/ LoopFail(l)
    \/ LoopCondition(l)
    \/ \E matched \in BOOLEAN : LoopRecognize(l, matched)
    \/ LoopCallback(l)
    \/ LoopSpeechFlag(l)
    \/ \E r \in StartResults : LoopRegister(l, r)
    \/ LoopRegisterFailed(l)
    \/ LoopSpawnTimer(l)

\* the steps of the closure once it is called
ClosureStep ==
    \/ \E stop \in BOOLEAN : ClosureEmits(stop)
    \/ ClosureClears

NextLocks ==
    \/ \E c \in Commands : BeginStart(c) \/ BeginStop(c) \/ CommandStep(c)
    \/ \E l \in Loops : LoopStep(l)
    \/ \E last \in BOOLEAN : TimerClears(last)
    \/ ClosureCalled
    \/ ClosureStep

\* every thread is scheduled, and a thread waiting for a mutex that is freed
\* again and again gets it in the end
LockFairness ==
    /\ \A c \in Commands : SF_vars(CommandStep(c))
    /\ \A l \in Loops : WF_vars(LoopStep(l))
    /\ WF_vars(ClosureStep)

SpecLocks == Init /\ [][NextLocks]_vars /\ LockFairness

(***************************************************************************)
(* audio.rs: AudioCapture.                                                 *)
(***************************************************************************)
CaptureFlavors == { "plain", "with_sample_rate" }

\* outcomes of capture_audio_stream / capture_audio_stream_with_sample_rate
CaptureResults ==
    { "ok", "no_device", "config_err", "unsupported_format", "build_err", "play_err" }

\* a start that never takes the early return
AlreadyCapturing_Never ==
    FALSE

\* if *is_capturing_guard { return Ok(()); }
AlreadyCapturing ==
    is_capturing

\* a start that stores the stream it built although setup failed
StreamAfterStart_Kept(r, k) ==
    k

\* self._stream = Some(stream) is reached only when setup returned Ok
StreamAfterStart(r, k) ==
    IF r = "ok" THEN k ELSE stream

\* start_capture (flavor "plain") and start_capture_with_sample_rate
StartCapture(f, r) ==
    /\ capturePc = "idle"
    /\ captureCalls < MaxCaptures
    /\ captureCalls' = captureCalls + 1
    /\ IF AlreadyCapturing
       THEN /\ captureResult' = "ok"
            /\ UNCHANGED << is_capturing, shutdown_sender, stream, openStreams, sink >>
       ELSE /\ is_capturing' = TRUE
            /\ shutdown_sender' = "Some"
            /\ stream' = StreamAfterStart(r, captureCalls + 1)
            /\ openStreams' = IF stream' = stream
                              THEN openStreams
                              ELSE (openStreams \ {stream}) \cup {stream'}
            /\ sink' = IF stream' = stream
                       THEN sink
                       ELSE [call |-> captureCalls + 1, flavor |-> f]
            /\ captureResult' = r
    /\ UNCHANGED << capturePc, buffer, late >>
    /\ UNCHANGED << detectorVars, hostVars, lockVars >>

\* *self.is_capturing.lock().unwrap() = false;
StopCaptureClear ==
    /\ capturePc = "idle"
    /\ capturePc' = "stopping"
    /\ is_capturing' = FALSE
    /\ UNCHANGED << shutdown_sender, stream, openStreams, sink, captureCalls,
                    captureResult, buffer, late >>
    /\ UNCHANGED << detectorVars, hostVars, lockVars >>

\* a stop that leaves the sender in place
SenderAfterStop_Kept ==
    shutdown_sender

\* self.shutdown_sender.take()
SenderAfterStop ==
    "None"

\* the sender is taken and signalled, self._stream = None, the call returns
StopCaptureDrop ==
    /\ capturePc = "stopping"
    /\ capturePc' = "idle"
    /\ shutdown_sender' = SenderAfterStop
    /\ stream' = 0
    /\ openStreams' = openStreams \ {stream}
    /\ sink' = NoSink
    /\ late' = 0
    /\ UNCHANGED << is_capturing, captureCalls, captureResult, buffer >>
    /\ UNCHANGED << detectorVars, hostVars, lockVars >>

\* an input callback that dispatches without looking at the flag
CapturingAtCheck_Unchecked ==
    TRUE

\* if !*is_capturing.lock().unwrap() { return; }
CapturingAtCheck ==
    is_capturing

\* the audio thread calls the input callback of the open stream with n samples
BufferArrives(n) ==
    /\ stream \in openStreams
    /\ buffer.stage = "none"
    /\ IF CapturingAtCheck
       THEN buffer' = [stage |-> "passed", stream |-> stream, len |-> n,
                       flag |-> is_capturing]
       ELSE UNCHANGED buffer
    /\ UNCHANGED << is_capturing, shutdown_sender, stream, openStreams, sink,
                    capturePc, captureCalls, captureResult, late >>
    /\ UNCHANGED << detectorVars, hostVars, lockVars >>

\* the samples are converted; if !audio_frame.is_empty() { callback(audio_frame) }
Deliver ==
    /\ buffer.stage = "passed"
    /\ buffer' = NoBuffer
    /\ late' = IF buffer.len > 0 /\ buffer.stream \notin openStreams
               THEN Min(late + 1, 2)
               ELSE late
    /\ UNCHANGED << is_capturing, shutdown_sender, stream, openStreams, sink,
                    capturePc, captureCalls, captureResult >>
    /\ UNCHANGED << detectorVars, hostVars, lockVars >>

(***************************************************************************)
(* The specifications.                                                     *)
(***************************************************************************)
\* a step of the detector or of one of its threads
OfDetector(Step) ==
    Step /\ UNCHANGED << hostVars, audioVars, lockVars >>

\* the threads of the detector and its timers
Threads ==
    \/ \E t \in Calls : OfDetector(AcquireRecognizer(t))
    \/ \E t \in Calls, r \in SetupResults : OfDetector(Setup(t, r))
    \/ \E t \in Calls : OfDetector(LoopCheck(t))
    \/ \E t \in Calls, r \in RecognizeResults : OfDetector(Recognize(t, r))
    \/ \E t \in Calls : OfDetector(CallbackReturn(t))
    \/ \E t \in Calls : OfDetector(FollowUpCheck(t))
    \/ \E t \in Calls, r \in StartResults : OfDetector(FollowUpRegister(t, r))
    \/ OfDetector(TimerExpire)
    \/ OfDetector(Tick)

\* the threads and the collaborator, with no event sink set
Background ==
    \/ Threads
    \/ \E u \in UtteranceTexts : OfDetector(Utterance(u))

\* the later steps of a start_listening or stop_listening call
CallSteps ==
    \/ \E t \in Calls : OfDetector(StartSpawn(t))
    \/ OfDetector(StopClearSpeech)
    \/ OfDetector(StopTeardown)

\* the detector called directly, by any number of caller threads
Next ==
    \/ OfDetector(StartListening)
    \/ OfDetector(StopClearWake)
    \/ CallSteps
    \/ Background

Spec == Init /\ [][Next]_vars

\* the steps of the thread spawned by call t, and of the call itself
ThreadStep(t) ==
    \/ OfDetector(StartSpawn(t))
    \/ OfDetector(AcquireRecognizer(t))
    \/ \E r \in SetupResults : OfDetector(Setup(t, r))
    \/ OfDetector(LoopCheck(t))
    \/ \E r \in RecognizeResults : OfDetector(Recognize(t, r))
    \/ OfDetector(CallbackReturn(t))
    \/ OfDetector(FollowUpCheck(t))
    \/ \E r \in StartResults : OfDetector(FollowUpRegister(t, r))

\* every spawned thread is scheduled; ctx.recognize returns within its 500 ms
\* timeout; the callback and the calls into the engine return; a
\* stop_listening call runs to its end
Fairness ==
    /\ \A t \in Calls : WF_vars(ThreadStep(t))
    /\ WF_vars(OfDetector(StopClearSpeech))
    /\ WF_vars(OfDetector(StopTeardown))

SpecLive == Spec /\ Fairness

\* the detector behind the commands of the host application
NextHost ==
    \/ \E r \in NewResults : AppSetup(r)
    \/ StartCommand
    \/ StopCommand
    \/ DropDetector
    \/ CallSteps
    \/ Threads
    \/ \E u \in UtteranceTexts : UtteranceEvent(u)

SpecHost == InitHost /\ [][NextHost]_vars

\* one AudioCapture, its owner and the audio thread
NextAudio ==
    \/ \E f \in CaptureFlavors, r \in CaptureResults : StartCapture(f, r)
    \/ StopCaptureClear
    \/ StopCaptureDrop
    \/ \E n \in 0..MaxFrame : BufferArrives(n)
    \/ Deliver

SpecAudio == Init /\ [][NextAudio]_vars

(***************************************************************************)
(* Properties of the wake-word state machine.                              *)
(***************************************************************************)
TerminalPcs == { "none", "rejected", "done", "failed" }

\* C1: at most one background thread of the detector is inside the
\* recognition polling loop at any time, whatever the interleaving of
\* start_listening, stop_listening and the threads' steps.
C1_AtMostOnePollingLoop ==
    Cardinality(Polling) <= 1

\* a thread polls while the thread of a later start_listening waits for the mutex
C1_Witness ==
    /\ pc[1] = "recognize"
    /\ pc[2] = "wait_recognizer"
    /\ is_listening_for_wake_word

\* C2: start_listening called while is_listening_for_wake_word is true is a
\* no-op: no thread is spawned, neither flag changes, the running loop keeps
\* its callback and the callback passed to the rejected call is never invoked.
C2_StartWhileListeningIsNoOp ==
    /\ [][(is_listening_for_wake_word /\ nextCall' # nextCall) =>
            /\ pc' = [pc EXCEPT ![nextCall] = "rejected"]
            /\ UNCHANGED << is_listening_for_wake_word, is_listening_for_speech,
                            recognizer, recognizer_guard, speechSession, timers,
                            invoked, cbArgs >>]_vars
    /\ [](\A t \in Calls : pc[t] = "rejected" => invoked[t] = 0)
    /\ [][\A t \in Calls : pc[t] = "rejected" => pc'[t] = "rejected"]_vars

\* the second call was rejected while the first call's loop runs its callback
C2_Witness ==
    /\ pc[2] = "rejected"
    /\ pc[1] = "in_callback"
    /\ invoked[1] = 1

\* C3: is_listening_for_speech changes from false to true only in states
\* where is_listening_for_wake_word is true.
C3_FollowUpOnlyWhileWakeActive ==
    [][(~is_listening_for_speech /\ is_listening_for_speech')
          => is_listening_for_wake_word]_vars

\* C4: a thread that was polling when stop_listening cleared the wake-word
\* flag exits at its next loop-condition check.
C4_ExitsAtNextCheckAfterStop ==
    [][\A t \in Calls :
          (t \in stopSeen /\ pc[t] = "check" /\ pc'[t] # "check")
              => pc'[t] = "done"]_vars

\* pat occurs in the lower-cased s: some position starts a copy of it
OccursLowered(s, pat) ==
    \E i \in 1..Len(s) :
        /\ i + Len(pat) - 1 <= Len(s)
        /\ \A k \in 1..Len(pat) : to_lowercase_char(s[i + k - 1]) = pat[k]

\* the phrase texts that hold "hey jackson", case-insensitively
TextsHoldingWakePhrase ==
    { x \in PhraseTexts : OccursLowered(x, WakePhrase) }

\* the utterance texts that hold a stop phrase, case-insensitively
TextsHoldingStopPhrase ==
    { u \in UtteranceTexts :
        \E pat \in { StopListeningPhrase, GoodbyePhrase, ByePhrase } :
            OccursLowered(u, pat) }

PhraseResult(x) == [kind |-> "phrase", text |-> x]

\* the step of thread t invokes its callback once, with index 0
Fires(t) ==
    /\ pc'[t] = "in_callback"
    /\ invoked'[t] = invoked[t] + 1
    /\ WakeWordIndex \in cbArgs'

\* C5: for every recognized text the callback is invoked, with index 0, if and
\* only if the lower-cased text contains "hey jackson"; "please say HEY
\* JACKSON now" fires it and "hey jason" does not.
C5_CallbackIffWakePhrase ==
    [][\A t \in Calls :
          /\ \A x \in PhraseTexts :
                 Recognize(t, PhraseResult(x))
                     => (Fires(t) <=> x \in TextsHoldingWakePhrase)
          /\ Recognize(t, PhraseResult(PleaseSayHeyJacksonNow)) => Fires(t)
          /\ Recognize(t, PhraseResult(HeyJason))
                 => (invoked' = invoked /\ pc'[t] = "check")]_vars

\* the callback runs after a recognized phrase, and only index 0 was ever passed
C5_Witness ==
    \E t \in Calls : pc[t] = "in_callback" /\ invoked[t] = 1 /\ cbArgs = {0}

\* C6: the callback of a start_listening call is invoked exactly once for each
\* recognition result whose text contains the wake phrase, always with 0, and
\* never for a timeout, an error or any other step.
C6_OneInvocationPerMatch ==
    [][/\ \A t \in Calls, r \in RecognizeResults :
              Recognize(t, r) =>
                  /\ invoked'[t] =
                         invoked[t] + (IF r.text \in TextsHoldingWakePhrase THEN 1 ELSE 0)
                  /\ \A o \in Calls \ {t} : invoked'[o] = invoked[o]
       /\ (invoked' # invoked) =>
              /\ \E t \in Calls, x \in TextsHoldingWakePhrase :
                     Recognize(t, PhraseResult(x))
              /\ cbArgs' = {0}]_vars

\* two matches were reported to one thread and its callback ran twice
C6_Witness ==
    \E t \in Calls : invoked[t] = 2 /\ pc[t] = "recognize" /\ cbArgs = {0}

\* C7: once the follow-up flag is set it is cleared by the first utterance
\* that holds a stop phrase, and it is never still set more than 30 seconds
\* after it was set.
C7_FollowUpWindowBounded ==
    /\ [](is_listening_for_speech => windowAge <= FollowUpTimeoutSecs)
    /\ [][\A u \in TextsHoldingStopPhrase :
              Utterance(u) => ~is_listening_for_speech']_vars

\* the window has been open for the full 30 seconds and its timer is due
C7_Witness ==
    /\ is_listening_for_speech
    /\ windowAge = FollowUpTimeoutSecs
    /\ 0 \in timers

\* both flags false, no background thread, no start_listening in progress
Idle ==
    /\ ~is_listening_for_wake_word
    /\ ~is_listening_for_speech
    /\ \A t \in Calls : pc[t] \in TerminalPcs

\* C8: stop_listening on an idle detector changes nothing: both flags stay
\* false, no thread is spawned and the engine handle is untouched.
C8_StopWhenIdleIsNoOp ==
    [][(Idle /\ (StopClearWake \/ StopClearSpeech \/ StopTeardown)) =>
            /\ ~is_listening_for_wake_word'
            /\ ~is_listening_for_speech'
            /\ UNCHANGED << pc, recognizer, recognizer_guard, timers, invoked >>]_vars

\* a stop_listening call on a detector that was never started is at its last step
C8_Witness ==
    /\ Idle
    /\ nextCall = 1
    /\ stopsAtTeardown = 1
    /\ recognizer = "Some"

\* C9: a thread whose setup fails terminates without polling or invoking the
\* callback and clears is_listening_for_wake_word, so the next start_listening
\* is accepted and spawns a new thread.
C9_SetupFailureResetsToIdle ==
    /\ [](\A t \in Calls : pc[t] = "failed" => invoked[t] = 0)
    /\ [][\A t \in Calls :
              (pc[t] # "failed" /\ pc'[t] = "failed") =>
                  /\ pc[t] \in { "wait_recognizer", "setup" }
                  /\ ~is_listening_for_wake_word'
                  /\ recognizer_guard' # t
                  /\ UNCHANGED << invoked, cbArgs >>]_vars
    /\ [][(~is_listening_for_wake_word /\ nextCall' # nextCall) =>
              (pc'[nextCall] = "spawn" /\ is_listening_for_wake_word')]_vars
    /\ [][\A t \in Calls :
              (pc[t] = "spawn" /\ pc'[t] # "spawn") => pc'[t] = "wait_recognizer"]_vars

\* the first thread's setup failed and the thread of a later start_listening polls
C9_Witness ==
    /\ pc[1] = "failed"
    /\ pc[2] = "recognize"
    /\ is_listening_for_wake_word

\* C10: no two invocations of the wake-word callback overlap in time, also
\* when a start_listening follows a stop_listening before the earlier loop
\* has exited.
C10_CallbacksNeverOverlap ==
    Cardinality({ t \in Calls : pc[t] = "in_callback" }) <= 1

\* the old loop runs its callback while the thread of the later start is alive
C10_Witness ==
    /\ pc[1] = "in_callback"
    /\ pc[2] = "wait_recognizer"
    /\ 1 \in stopSeen

\* C11: the wake-word callback is invoked with no detector lock held by the
\* invoking thread (so that a callback may call start_listening or
\* stop_listening on the same detector).
C11_CallbackHoldsNoLock ==
    \A t \in Calls : pc[t] = "in_callback" => recognizer_guard # t

\* C18: no mutex is held by a background thread while it is blocked in a
\* recognition poll.
C18_NoLockAcrossRecognize ==
    \A t \in Calls : pc[t] = "recognize" => recognizer_guard # t

\* the latest start_listening call that set the wake-word flag
LastAccepted ==
    LET acc == { t \in Calls : pc[t] \notin { "none", "rejected" } }
    IN  IF acc = {} THEN 0 ELSE CHOOSE t \in acc : \A o \in acc : o <= t

\* C19: a setup failure in a background thread never clears
\* is_listening_for_wake_word when the flag was set by a later start_listening
\* call than the one that spawned the thread.
C19_SetupFailureAbortsOwnSessionOnly ==
    [][\A t \in Calls :
          (pc[t] # "failed" /\ pc'[t] = "failed"
             /\ is_listening_for_wake_word /\ LastAccepted # t)
              => is_listening_for_wake_word']_vars

\* thread t's recognition attempt ends in a timeout or an error
MissBy(t) ==
    /\ pc[t] = "recognize"
    /\ pc'[t] # "recognize"
    /\ missed'

\* C20: a recognition attempt that times out or fails changes neither flag,
\* invokes no callback, starts no follow-up session and no timer, and the
\* thread goes on to its next flag check.
C20_MissChangesNothing ==
    [][\A t \in Calls :
          MissBy(t) =>
              /\ UNCHANGED << is_listening_for_wake_word, is_listening_for_speech,
                              invoked, cbArgs, speechSession, timers >>
              /\ pc'[t] = "check"]_vars

C20_Witness ==
    \E t \in Calls :
        /\ pc[t] = "check"
        /\ missed
        /\ is_listening_for_wake_word

(***************************************************************************)
(* Properties of the host application (SpecHost).                          *)
(***************************************************************************)
\* C16: once construction has failed the detector stays absent, every start
\* and stop command answers "Wake word detector not initialized", and no
\* thread is spawned nor any detector state created.
C16_AbsentDetectorRejectsCommands ==
    /\ [](wake_word_detector = "None" /\ lastCommand # "none"
             => commandResult = "not_initialized")
    /\ [](wake_word_detector = "None"
             => /\ \A t \in Calls : pc[t] = "none"
                /\ recognizer = "None")
    /\ [][wake_word_detector = "None"
             => wake_word_detector' = "None" /\ UNCHANGED detectorVars]_vars

C16_Witness ==
    /\ wake_word_detector = "None"
    /\ lastCommand = "stop"
    /\ commandResult = "not_initialized"

\* C17: the engine handle is created by the constructor only and is present
\* for as long as the detector exists, whatever start/stop calls and thread
\* steps happen; the engine is finalized once when the detector is dropped,
\* and not before nor a second time.
C17_EngineCreatedOnceFinalizedOnce ==
    /\ [](wake_word_detector = "Some" => recognizer = "Some")
    /\ [][recognizer' # recognizer => wake_word_detector = "Unset"]_vars
    /\ [](finalized = IF wake_word_detector = "Dropped" THEN 1 ELSE 0)

C17_Witness ==
    /\ wake_word_detector = "Dropped"
    /\ finalized = 1
    /\ recognizer = "Some"
    /\ \E t \in Calls : pc[t] = "done"
    /\ \E t \in Calls : pc[t] \in LoopPcs

(***************************************************************************)
(* Properties of AudioCapture (SpecAudio).                                 *)
(***************************************************************************)
\* the sink is called with the buffer the audio thread is working on
SinkInvoked ==
    /\ buffer.stage = "passed"
    /\ buffer'.stage = "none"
    /\ buffer.len > 0

\* C12: after stop_capture has returned the sink is invoked at most once, and
\* every buffer that reaches the sink passed its flag check while the flag
\* was still set; a buffer checked after the flag was cleared is dropped.
C12_AtMostOneLateBuffer ==
    /\ [](late <= 1)
    /\ [][SinkInvoked => buffer.flag]_vars
    /\ [][(~is_capturing /\ buffer.stage = "none") => buffer'.stage = "none"]_vars

C12_Witness ==
    /\ late = 1
    /\ ~is_capturing
    /\ capturePc = "idle"
    /\ stream = 0

\* a start call of either flavor is made
StartCalled ==
    captureCalls' # captureCalls

\* C13: the instance never owns more than one stream, and a start call of
\* either flavor made while is_capturing is set returns Ok and leaves the
\* stream, the sink and every field as they were.
C13_OneStreamAndStartIsIdempotent ==
    /\ [](Cardinality(openStreams) <= 1 /\ openStreams = { stream } \ { 0 })
    /\ [][(StartCalled /\ is_capturing)
             => /\ UNCHANGED << is_capturing, shutdown_sender, stream, openStreams,
                                sink >>
                /\ captureResult' = "ok"]_vars

C13_Witness ==
    /\ captureCalls = 2
    /\ is_capturing
    /\ stream = 1
    /\ sink.call = 1
    /\ captureResult = "ok"

\* C14: when stop_capture returns is_capturing is false and the stream and
\* the shutdown sender are absent; a stop_capture call on an instance that
\* is not capturing changes no field.
C14_StopIsIdempotent ==
    /\ [][(capturePc = "stopping" /\ capturePc' = "idle")
             => /\ ~is_capturing'
                /\ stream' = 0
                /\ openStreams' = {}
                /\ shutdown_sender' = "None"]_vars
    /\ [](capturePc = "idle" /\ ~is_capturing
             => stream = 0 /\ shutdown_sender = "None")
    /\ [][(capturePc' # capturePc /\ ~is_capturing /\ stream = 0
             /\ shutdown_sender = "None")
             => UNCHANGED << is_capturing, shutdown_sender, stream, openStreams,
                             sink >>]_vars

C14_Witness ==
    /\ captureCalls > 0
    /\ captureResult = "ok"
    /\ capturePc = "idle"
    /\ ~is_capturing
    /\ stream = 0
    /\ shutdown_sender = "None"

\* C15: a start_capture whose stream setup fails returns the error and the
\* instance holds no stream afterwards.
C15_FailedSetupHoldsNoStream ==
    /\ [][(StartCalled /\ ~is_capturing)
             => (captureResult' # "ok" <=> stream' = 0)]_vars
    /\ [](captureResult \notin { "none", "ok" }
             => stream = 0 /\ openStreams = {})

C15_Witness ==
    /\ captureResult = "unsupported_format"
    /\ stream = 0
    /\ openStreams = {}
    /\ capturePc = "idle"

(***************************************************************************)
(* Properties of a wake cycle: callback, follow-up activation, utterances.  *)
(***************************************************************************)
\* thread t moves from position a to position b
Moves(t, a, b) ==
    pc[t] = a /\ pc'[t] = b

\* callbacks of thread t that have returned
Completed(t) ==
    IF pc[t] = "in_callback" THEN invoked[t] - 1 ELSE invoked[t]

\* C21: in a wake cycle the callback has returned before the thread sets
\* is_listening_for_speech and before it calls the collaborator's
\* start_listening, so a follow-up session (and with it any utterance event)
\* exists only after a completed callback.
C21_CallbackBeforeFollowUp ==
    /\ [][(~is_listening_for_speech /\ is_listening_for_speech')
             => \E t \in Calls : Moves(t, "followup", "fu_register")]_vars
    /\ [][(~speechSession /\ speechSession')
             => \E t \in Calls : Moves(t, "fu_register", "check")]_vars
    /\ [][\A t \in Calls :
             /\ (pc[t] # "followup" /\ pc'[t] = "followup")
                   => (pc[t] = "in_callback" /\ invoked'[t] = invoked[t])
             /\ (pc[t] # "fu_register" /\ pc'[t] = "fu_register")
                   => pc[t] = "followup"]_vars
    /\ [](\A t \in Calls : pc[t] \in { "followup", "fu_register" } => Completed(t) >= 1)
    /\ [](speechSession => \E t \in Calls : Completed(t) >= 1)

C21_Witness ==
    /\ speechSession
    /\ is_listening_for_speech
    /\ \E t \in Calls : pc[t] = "check" /\ invoked[t] = 1

\* thread t reads is_listening_for_speech after a match and finds it set
MatchWhileActive(t) ==
    /\ pc[t] = "followup"
    /\ pc'[t] # "followup"
    /\ is_listening_for_speech

\* C22: a match made while is_listening_for_speech is already set has invoked
\* the callback, and then starts no collaborator session, spawns no timer and
\* leaves the flag set and the age of the open window as they were.
C22_MatchWhileActiveAddsNothing ==
    /\ [][\A t \in Calls :
             MatchWhileActive(t)
                => /\ pc'[t] = "check"
                   /\ is_listening_for_speech'
                   /\ UNCHANGED << speechSession, timers, windowAge, invoked, cbArgs >>]_vars
    /\ [](\A t \in Calls : pc[t] = "followup" => Completed(t) >= 1)

C22_Witness ==
    /\ is_listening_for_speech
    /\ speechSession
    /\ windowAge > 0
    /\ timers # {}
    /\ \E t \in Calls : pc[t] = "followup" /\ invoked[t] >= 1

\* C23: an utterance is forwarded as a "continuous-speech" event only while
\* is_listening_for_speech is set; none is forwarded once a stop phrase, the
\* timeout or stop_listening has cleared it.
C23_ForwardedOnlyWhileWindowOpen ==
    lastEmit # "closed"

\* a timer thread wakes up and finds is_listening_for_speech set
TimerClearsWindow ==
    /\ 0 \in timers
    /\ 0 \notin timers'
    /\ is_listening_for_speech
    /\ ~is_listening_for_speech'

\* C27: a timer thread clears is_listening_for_speech only for the window it
\* was started with, that is when the open window is 30 seconds old; a timer
\* of an earlier wake cycle never closes a window opened later.
C27_TimerClosesOwnWindowOnly ==
    [][TimerClearsWindow => windowAge = FollowUpTimeoutSecs]_vars

(***************************************************************************)
(* More properties of AudioCapture (SpecAudio).                            *)
(***************************************************************************)
\* C28: between calls is_capturing is set exactly when a stream is held; in
\* particular a start call that returned an error leaves the instance not
\* capturing, so that the next start call opens a stream again.
C28_CapturingIffStreamHeld ==
    capturePc = "idle" => (is_capturing <=> stream # 0)

(***************************************************************************)
(* Threads behind the wake-word flag.                                      *)
(***************************************************************************)
\* spawned threads that have not returned
Alive ==
    { t \in Calls : pc[t] \in AlivePcs }

\* a start_listening call has set the flag and not yet spawned its thread
StartInProgress ==
    \E t \in Calls : pc[t] = "spawn"

Attempting ==
    { t \in Calls : pc[t] = "recognize" }

\* no start_listening or stop_listening call is in progress and the flag is clear
Stopped ==
    /\ ~is_listening_for_wake_word
    /\ InFlight = 0

\* C25: once stop_listening has returned and as long as no start_listening
\* sets the flag again, at most one recognition attempt is still in progress,
\* no new attempt begins, a callback is invoked only from that attempt, and
\* every spawned thread comes to its end.
C25_QuiescesAfterStop ==
    /\ [](~is_listening_for_wake_word => Cardinality(Attempting) <= 1)
    /\ [][\A t \in Calls :
             /\ (pc[t] # "recognize" /\ pc'[t] = "recognize")
                   => is_listening_for_wake_word
             /\ (pc[t] # "in_callback" /\ pc'[t] = "in_callback")
                   => (pc[t] = "recognize" /\ invoked'[t] = invoked[t] + 1)
             /\ invoked'[t] # invoked[t] => pc'[t] = "in_callback"
             /\ (~is_listening_for_wake_word /\ pc[t] = "check" /\ pc'[t] # "check")
                   => pc'[t] = "done"]_vars
    /\ (Stopped ~> (Alive = {} \/ is_listening_for_wake_word))

C25_Witness ==
    /\ Stopped
    /\ Alive = {}
    /\ \E t \in Calls : pc[t] = "done" /\ invoked[t] >= 1
    /\ \E t \in Calls : pc[t] = "done" /\ invoked[t] = 0

(***************************************************************************)
(* Properties of the locking (SpecLocks).                                  *)
(***************************************************************************)
\* the thread that thread a is waiting for: the holder of the mutex it is
\* about to lock (itself, if it holds that mutex already)
WaitsFor(a) ==
    IF a = Free \/ Wanted(at[a]) = "none"
    THEN Free
    ELSE holder[Wanted(at[a])]

\* the thread reached from a after n links of the waits-for relation
RECURSIVE WaitChain(_, _)
WaitChain(a, n) ==
    IF n = 0 \/ a = Free THEN a ELSE WaitChain(WaitsFor(a), n - 1)

\* no thread waits, directly or through others, for itself: every chain of
\* waiting threads ends at a thread that is not waiting
NoCyclicWait ==
    \A a \in Agents : WaitChain(a, Cardinality(Agents)) = Free

\* command handler c is inside a command
InCommand(c) ==
    at[c] # "idle"

\* C24: no set of threads waits cyclically on the mutexes (host detector
\* mutex, the two flags, recognizer, speech_recognizer, app_handle,
\* audio_capture), and every start and stop command that has begun returns.
C24_NoDeadlock ==
    /\ []NoCyclicWait
    /\ \A c \in Commands : InCommand(c) ~> ~InCommand(c)

C24_Witness ==
    /\ \E c \in Commands : at[c] = "stop.speech_recognizer" /\ holder["host"] = c
    /\ \E l \in Loops :
          /\ at[l] = "err.is_listening_for_speech"
          /\ holder["speech_recognizer"] = l
          /\ holder["recognizer"] = l
    /\ \E l \in Loops : at[l] = "loop.recognizer"
    /\ \E c \in Commands : at[c] = "stop.host"

=============================================================================
